---- MODULE Spec2Model ----
(***************************************************************************)
(* Model of upgrade_me.py: the pipeline upgrade_dependencies ->            *)
(* build_project -> analyze_build_errors, and the snippet extraction       *)
(* get_code_snippet_around_error.                                          *)
(*                                                                         *)
(* Text is a sequence of one-character strings; a literal of the program   *)
(* that is never inspected (a prompt template chunk, the placeholder) is   *)
(* one symbol.  Files are records, the project's sources a function from   *)
(* path to content.                                                        *)
(***************************************************************************)
EXTENDS Integers, Sequences, FiniteSets, TLC

VARIABLES
    pc,               \* position of the run
    use_local_model,  \* the process-wide backend flag (line 255)
    manifest,         \* package.json on disk
    origManifest,     \* package.json as it was before the run
    up,               \* what upgrade_dependencies saw and returned
    proc,             \* what subprocess.run gave build_project
    buildRet,         \* build_project's return value
    logFile,          \* build_errors.log on disk
    calls,            \* the stages called so far, in order
    files,            \* the project's source files: path -> content
    backend,          \* how the text-generation backend behaves in this run
    analysis,         \* analyze_build_errors' outcome
    printed,          \* the suggestions printed by the entry point
    error,            \* the error text given to get_code_snippet_around_error
    snippetOut,       \* get_code_snippet_around_error's outcome
    given             \* the case the inputs of a direct call were built from

vars == <<pc, use_local_model, manifest, origManifest, up, proc, buildRet,
          logFile, calls, files, backend, analysis, printed, error, snippetOut,
          given>>

---------------------------------------------------------------------------
(* Bounds *)

MaxTotalLines == 16   \* a source file has 0..MaxTotalLines lines
MaxLineNumber == 23   \* reported line numbers 0..MaxLineNumber
MaxLogLines == 2      \* a build log has 0..MaxLogLines lines
MaxBuildLines == 1    \* the pipeline's build prints 0..MaxBuildLines lines per stream
SrcTotalLines == 12   \* length of the project's source file in the analyzer runs

---------------------------------------------------------------------------
(* Text *)

NL == "\n"

Min(a, b) == IF a < b THEN a ELSE b
Max(a, b) == IF a > b THEN a ELSE b

\* t in s, for Python strings
Contains(s, t) ==
    \E i \in 0..(Len(s) - Len(t)) : SubSeq(s, i + 1, i + Len(t)) = t

\* str.splitlines(): a line ends at each newline, and the text after the last
\* newline is a line only if it is not empty
RECURSIVE SplitFrom(_, _, _)
SplitFrom(s, i, cur) ==
    IF i > Len(s) THEN (IF cur = <<>> THEN <<>> ELSE <<cur>>)
    ELSE IF s[i] = NL THEN <<cur>> \o SplitFrom(s, i + 1, <<>>)
    ELSE SplitFrom(s, i + 1, Append(cur, s[i]))

splitlines(s) == SplitFrom(s, 1, <<>>)

\* sep.join(lines)
RECURSIVE join(_, _)
join(sep, lines) ==
    IF Len(lines) = 0 THEN <<>>
    ELSE IF Len(lines) = 1 THEN lines[1]
    ELSE lines[1] \o <<sep>> \o join(sep, Tail(lines))

\* lst[start:end]: a negative index counts from the end, and both are clamped
PySlice(lst, start, end) ==
    LET norm(i) == IF i < 0 THEN Max(0, Len(lst) + i) ELSE Min(i, Len(lst))
        lo == norm(start)
        hi == norm(end)
    IN  IF lo >= hi THEN <<>> ELSE SubSeq(lst, lo + 1, hi)

DigitChars == <<"0", "1", "2", "3", "4", "5", "6", "7", "8", "9">>

IsDigit(c) == \E d \in 1..10 : DigitChars[d] = c

DigitVal(c) == (CHOOSE d \in 1..10 : DigitChars[d] = c) - 1

\* int(text) for a run of decimal digits
RECURSIVE int(_)
int(ds) ==
    IF Len(ds) = 0 THEN 0
    ELSE int(SubSeq(ds, 1, Len(ds) - 1)) * 10 + DigitVal(ds[Len(ds)])

\* A character of the class [^\s(]
IsPathChar(c) == c # " " /\ c # NL /\ c # "("

\* End of the longest run of [^\s(] that starts at i
PathRunEnd(s, i) ==
    CHOOSE j \in i..Len(s) :
        /\ \A k \in i..j : IsPathChar(s[k])
        /\ (j = Len(s) \/ ~IsPathChar(s[j + 1]))

\* End of the longest run of \d that starts at i
DigitRunEnd(s, i) ==
    CHOOSE j \in i..Len(s) :
        /\ \A k \in i..j : IsDigit(s[k])
        /\ (j = Len(s) \/ ~IsDigit(s[j + 1]))

SetMin(S) == CHOOSE x \in S : \A y \in S : x <= y

NoMatch == [matched |-> FALSE, group1 |-> <<>>]

\* re.search(r'([^\s(]+)\(', s): leftmost start, greedy run, then "("
SearchFilePath(s) ==
    LET starts == {i \in 1..Len(s) :
                     /\ IsPathChar(s[i])
                     /\ LET j == PathRunEnd(s, i)
                        IN  j < Len(s) /\ s[j + 1] = "("}
    IN  IF starts = {} THEN NoMatch
        ELSE LET i == SetMin(starts)
             IN  [matched |-> TRUE, group1 |-> SubSeq(s, i, PathRunEnd(s, i))]

\* re.search(r'\(([\d]+)', s): leftmost "(" followed by a digit, greedy digits
SearchLineNumber(s) ==
    LET starts == {i \in 1..(Len(s) - 1) : s[i] = "(" /\ IsDigit(s[i + 1])}
    IN  IF starts = {} THEN NoMatch
        ELSE LET i == SetMin(starts)
             IN  [matched |-> TRUE,
                  group1 |-> SubSeq(s, i + 1, DigitRunEnd(s, i + 1))]

---------------------------------------------------------------------------
(* get_code_snippet_around_error *)

Context == 5

\* Line 195, and the same with the reported line taken as 1-indexed
WindowStartOneIndexed(line_number) == Max(0, line_number - 1 - Context)
WindowStart(line_number) == Max(0, line_number - Context)

\* Line 196, and the same with the last line included
WindowEndInclusive(line_number, total) == Min(line_number + Context + 1, total)
WindowEnd(line_number, total) == Min(line_number + Context, total)

\* The body of the try block: the exception it ends with ("none" when it
\* returns), the window `lines`, and the returned text
SnippetTry(fs, err) ==
    LET m1 == SearchFilePath(err)
        m2 == SearchLineNumber(err)
        failed(e) == [exc |-> e, lines |-> <<>>, ret |-> <<>>]
    IN  IF ~m1.matched THEN failed("AttributeError")
        ELSE IF m1.group1 \notin DOMAIN fs THEN failed("FileNotFoundError")
        ELSE IF ~m2.matched THEN failed("AttributeError")
        ELSE LET file_content == fs[m1.group1]
                 line_number == int(m2.group1)
                 start_line == WindowStart(line_number)
                 end_line == WindowEnd(line_number,
                                       Len(splitlines(file_content)))
                 lines == PySlice(splitlines(file_content), start_line, end_line)
             IN  [exc |-> "none", lines |-> lines, ret |-> join(NL, lines)]

\* Lines 201-203, and the same without the except clause
SnippetUncaught(t) ==
    [raised |-> t.exc # "none", exc |-> t.exc, lines |-> t.lines, ret |-> t.ret]
SnippetExcept(t) ==
    [raised |-> FALSE, exc |-> t.exc, lines |-> t.lines,
     ret |-> IF t.exc = "none" THEN t.ret ELSE <<>>]

get_code_snippet_around_error(fs, err) == SnippetExcept(SnippetTry(fs, err))

---------------------------------------------------------------------------
(* Inputs of the snippet extraction *)

LowerCase == <<"a", "b", "c", "d", "e", "f", "g", "h", "i", "j", "k", "l", "m",
               "n", "o", "p", "q", "r", "s", "t", "u", "v", "w", "x", "y", "z">>

\* str(n) for n >= 0
RECURSIVE ToDigits(_)
ToDigits(n) ==
    IF n < 10 THEN <<DigitChars[n + 1]>>
    ELSE ToDigits(n \div 10) \o <<DigitChars[(n % 10) + 1]>>

\* The text of source line i (0-indexed)
SourceLine(i) == <<LowerCase[(i % 26) + 1], LowerCase[((i \div 26) % 26) + 1]>>

\* A source file of n lines, each ended by a newline
RECURSIVE SourceText(_)
SourceText(n) ==
    IF n = 0 THEN <<>> ELSE SourceText(n - 1) \o SourceLine(n - 1) \o <<NL>>

SrcPath == <<"a", ".", "t", "s">>
MissingPath == <<"b", ".", "t", "s">>

ErrorMarker == <<"e", "r", "r", "o", "r">>

\* "<path>(L,C): error X"
ErrorAt(path, L, C) ==
    path \o <<"(">> \o ToDigits(L) \o <<",">> \o ToDigits(C) \o <<")", ":", " ">>
         \o ErrorMarker \o <<" ", "X">>

NoParenError == ErrorMarker \o <<":", " ", "X">>
BadNumberError == SrcPath \o <<"(", "x", ")", ":", " ">> \o ErrorMarker
CapitalLine == <<"E", "r", "r", "o", "r", " ", "X">>
PlainLine == <<"o", "k">>

Project(n) == [p \in {SrcPath} |-> SourceText(n)]

\* The cases drawn for a call of get_code_snippet_around_error
Givens ==
    [form : {"located"}, line : 0..MaxLineNumber, total : 0..MaxTotalLines]
    \cup [form : {"missing", "noparen", "badnumber"}, line : {0},
          total : 0..MaxTotalLines]

GivenError(g) ==
    CASE g.form = "located" -> ErrorAt(SrcPath, g.line, 1)
      [] g.form = "missing" -> ErrorAt(MissingPath, g.line, 1)
      [] g.form = "noparen" -> NoParenError
      [] g.form = "badnumber" -> BadNumberError

---------------------------------------------------------------------------
(* analyze_build_errors *)

NoFile == [exists |-> FALSE, readable |-> FALSE, content |-> <<>>]
TextFile(text) == [exists |-> TRUE, readable |-> TRUE, content |-> text]
UnreadableFile == [exists |-> TRUE, readable |-> FALSE, content |-> <<>>]

PromptHead == <<"\n                **Error:** ">>
PromptMid == <<"\n                **Code Snippet:**\n                '''typescript\n                ">>
PromptTail == <<" \n                '''\n                **Instruction:** How can I resolve this error? \n                ">>

\* The f-string of lines 118-125 (the chunks above spell its code fence ''')
MakePrompt(err, code_snippet) ==
    PromptHead \o err \o PromptMid \o code_snippet \o PromptTail

Placeholder == <<"Error generating suggestion from Gemini API.">>
FixedAnswer == <<"fix">>

\* The text a backend call gives when it does not fail: the stub echoes its
\* prompt, any other backend answers as it likes
Respond(b, prompt) == IF b.mode = "echo" THEN prompt ELSE FixedAnswer

\* Lines 130-145: tokenize, generate, decode; a failure is not caught here
LocalCall(b, k, prompt) ==
    IF k \in b.failAt THEN [exc |-> "generate", suggestion |-> <<>>]
    ELSE [exc |-> "none", suggestion |-> Respond(b, prompt)]

\* Lines 147-156: the remote call in its own try/except, and the same
\* without the try/except
HostedCallUncaught(b, k, prompt) == LocalCall(b, k, prompt)
HostedCall(b, k, prompt) ==
    IF k \in b.failAt THEN [exc |-> "none", suggestion |-> Placeholder]
    ELSE [exc |-> "none", suggestion |-> Respond(b, prompt)]

\* Line 115
IsErrorLine(line) == Contains(line, ErrorMarker)

\* Lines 114-159: the loop, from line i on; prompts are the backend calls made
RECURSIVE AnalyzeLoop(_, _, _, _, _, _, _)
AnalyzeLoop(fs, useLocal, b, lines, i, suggestions, prompts) ==
    IF i > Len(lines)
    THEN [exc |-> "none", suggestions |-> suggestions, prompts |-> prompts]
    ELSE IF ~IsErrorLine(lines[i])
    THEN AnalyzeLoop(fs, useLocal, b, lines, i + 1, suggestions, prompts)
    ELSE LET snip == get_code_snippet_around_error(fs, lines[i])
             prompt == MakePrompt(lines[i], snip.ret)
             k == Len(prompts) + 1
             r == IF useLocal THEN LocalCall(b, k, prompt)
                  ELSE HostedCall(b, k, prompt)
         IN  IF snip.raised
             THEN [exc |-> "snippet", suggestions |-> suggestions,
                   prompts |-> prompts]
             ELSE IF r.exc # "none"
             THEN [exc |-> r.exc, suggestions |-> suggestions,
                   prompts |-> Append(prompts, prompt)]
             ELSE AnalyzeLoop(fs, useLocal, b, lines, i + 1,
                              Append(suggestions, r.suggestion),
                              Append(prompts, prompt))

\* Lines 100-161: the body of the try block
AnalyzeTry(log, fs, useLocal, b) ==
    IF ~log.exists \/ ~log.readable
    THEN [exc |-> "open", suggestions |-> <<>>, prompts |-> <<>>]
    ELSE IF useLocal /\ ~b.loadOk
    THEN [exc |-> "load", suggestions |-> <<>>, prompts |-> <<>>]
    ELSE AnalyzeLoop(fs, useLocal, b, splitlines(log.content), 1, <<>>, <<>>)

\* Lines 163-165: any exception gives the empty list; the same without the
\* except clause; and the same giving the suggestions collected so far
AnalyzeUncaught(t) ==
    [raised |-> t.exc # "none", exc |-> t.exc, prompts |-> t.prompts,
     ret |-> t.suggestions]
AnalyzeExceptPartial(t) ==
    [raised |-> FALSE, exc |-> t.exc, prompts |-> t.prompts,
     ret |-> t.suggestions]
AnalyzeExcept(t) ==
    [raised |-> FALSE, exc |-> t.exc, prompts |-> t.prompts,
     ret |-> IF t.exc = "none" THEN t.suggestions ELSE <<>>]

analyze_build_errors(log, fs, useLocal, b) ==
    AnalyzeExcept(AnalyzeTry(log, fs, useLocal, b))

\* The behaviours of the backend drawn for a run with at most n calls
Backends(n) ==
    [mode : {"echo", "fixed"}, failAt : SUBSET (1..n), loadOk : BOOLEAN]

\* The lines a build log is made of
LogLines ==
    {ErrorAt(SrcPath, 7, 1), ErrorAt(MissingPath, 1, 1), NoParenError,
     BadNumberError, CapitalLine, PlainLine, <<>>}

\* All sequences over S of length at most n
SeqsUpTo(S, n) == UNION {[1..m -> S] : m \in 0..n}

\* text of the lines, each ended by a newline
RECURSIVE LinesText(_)
LinesText(ls) ==
    IF Len(ls) = 0 THEN <<>> ELSE ls[1] \o <<NL>> \o LinesText(Tail(ls))

---------------------------------------------------------------------------
(* upgrade_dependencies *)

Pkgs == {"left-pad", "lodash"}
Versions == {"^1.0.0", "1.3.0"}
NoLatest == "(no latest)"

\* The manifest's fields other than "dependencies"
OtherFields ==
    [name |-> "sample-nodejs", devDependencies |-> [p \in {"lodash"} |-> "^1.0.0"]]

MissingManifest ==
    [kind |-> "missing", layout |-> "none", hasDeps |-> FALSE, deps |-> <<>>,
     other |-> <<>>]
MalformedManifest ==
    [kind |-> "malformed", layout |-> "none", hasDeps |-> FALSE, deps |-> <<>>,
     other |-> <<>>]

\* A manifest that parses: its text layout, whether it has a "dependencies"
\* key, the dependencies, the other fields
JsonManifests ==
    {[kind |-> "json", layout |-> l, hasDeps |-> TRUE, deps |-> d,
      other |-> OtherFields] :
        l \in {"compact", "indent2"},
        d \in UNION {[S -> Versions] : S \in SUBSET Pkgs}}
    \cup {[kind |-> "json", layout |-> l, hasDeps |-> FALSE, deps |-> <<>>,
           other |-> OtherFields] : l \in {"compact", "indent2"}}

Manifests == {MissingManifest, MalformedManifest} \cup JsonManifests

\* What `npm outdated --json` printed: not JSON, JSON that is no object, or
\* an object name -> info, an info having a "latest" or not
Reports ==
    {[kind |-> "unparseable", entries |-> <<>>],
     [kind |-> "notdict", entries |-> <<>>]}
    \cup {[kind |-> "dict", entries |-> e] :
            e \in UNION {[S -> Versions \cup {NoLatest}] : S \in SUBSET Pkgs}}

\* Lines 33-35: the dependencies after the loop has run to its end; and the
\* same without the membership test of line 34
UpdatedDepsUnguarded(deps, entries) ==
    [p \in DOMAIN deps \cup DOMAIN entries |->
        IF p \in DOMAIN entries THEN entries[p] ELSE deps[p]]
UpdatedDeps(deps, entries) ==
    [p \in DOMAIN deps |-> IF p \in DOMAIN entries THEN entries[p] ELSE deps[p]]

\* Lines 37-38: json.dump(package_json, f, indent=2)
DumpManifest(m, deps) == [m EXCEPT !.layout = "indent2", !.deps = deps]

\* Lines 41-46: npm install with check=True, and the function's result
InstallStep(written, installOk) ==
    IF installOk THEN [ret |-> TRUE, exc |-> "none", manifest |-> written]
    ELSE [ret |-> FALSE, exc |-> "CalledProcessError", manifest |-> written]

\* Lines 44-46 for an exception raised before line 37: nothing was written;
\* and the same had the manifest been opened for writing before the loop
FailAfterTruncate(m, e) ==
    [ret |-> FALSE, exc |-> e,
     manifest |-> IF m.kind = "missing" THEN m ELSE MalformedManifest]
FailBeforeWrite(m, e) == [ret |-> FALSE, exc |-> e, manifest |-> m]

upgrade_dependencies(m, r, installOk) ==
    LET failed(e) == FailBeforeWrite(m, e)
    IN  IF r.kind = "unparseable" THEN failed("JSONDecodeError")
        ELSE IF m.kind = "missing" THEN failed("FileNotFoundError")
        ELSE IF m.kind = "malformed" THEN failed("JSONDecodeError")
        ELSE IF r.kind = "notdict" THEN failed("AttributeError")
        ELSE IF \E p \in DOMAIN r.entries \cap DOMAIN m.deps :
                    r.entries[p] = NoLatest
        THEN failed("KeyError")
        ELSE InstallStep(DumpManifest(m, UpdatedDeps(m.deps, r.entries)),
                         installOk)

---------------------------------------------------------------------------
(* build_project *)

\* What subprocess.run gave: it raised, or a completed process
LaunchFailure ==
    [launched |-> FALSE, returncode |-> 0, stdout |-> <<>>, stderr |-> <<>>]

BuildLines == {ErrorAt(SrcPath, 7, 1), PlainLine}
BuildErrLines == {NoParenError}

Procs ==
    {LaunchFailure}
    \cup {[launched |-> TRUE, returncode |-> rc, stdout |-> LinesText(o),
           stderr |-> LinesText(e)] :
            rc \in {0, 1},
            o \in SeqsUpTo(BuildLines, MaxBuildLines),
            e \in SeqsUpTo(BuildErrLines, MaxBuildLines)}

WriteOutcomes == {"ok", "open_fails", "write_fails"}

\* Line 74
CapturedErrors(p) == p.stdout

\* Lines 79-82: the log is opened for writing and the text written
WriteLog(log, text, w) ==
    CASE w = "ok" -> [ret |-> TRUE, exc |-> "none", log |-> TextFile(text)]
      [] w = "open_fails" -> [ret |-> FALSE, exc |-> "OSError", log |-> log]
      [] w = "write_fails" ->
            [ret |-> FALSE, exc |-> "OSError", log |-> TextFile(<<>>)]

build_project(p, log, w) ==
    IF ~p.launched THEN [ret |-> FALSE, exc |-> "OSError", log |-> log]
    ELSE IF p.returncode = 0 THEN [ret |-> FALSE, exc |-> "none", log |-> log]
    ELSE WriteLog(log, CapturedErrors(p), w)

---------------------------------------------------------------------------
(* The entry point, lines 254-265 *)

\* Line 257
AfterUpgrade(ret) == IF ret THEN "build" ELSE "done"

\* Line 258, and the same ignoring build_project's result
AfterBuildAlways(ret) == "analyze"
AfterBuild(ret) == IF ret THEN "analyze" ELSE "done"

NotRun ==
    [ran |-> FALSE, ret |-> FALSE, exc |-> "none",
     report |-> [kind |-> "unparseable", entries |-> <<>>], installOk |-> FALSE]
NotBuilt == [ran |-> FALSE, ret |-> FALSE, exc |-> "none"]
NoAnalysis ==
    [ran |-> FALSE, raised |-> FALSE, exc |-> "none", prompts |-> <<>>,
     ret |-> <<>>]
NoSnippet ==
    [ran |-> FALSE, raised |-> FALSE, exc |-> "none", lines |-> <<>>,
     ret |-> <<>>]
NoBackend == [mode |-> "echo", failAt |-> {}, loadOk |-> TRUE]
NoGiven == [form |-> "none", line |-> 0, total |-> 0]

\* What an earlier run left in build_errors.log
StaleLog == LinesText(<<BadNumberError>>)

Ran(r) == [ran |-> TRUE] @@ r

Init ==
    /\ pc = "upgrade"
    /\ use_local_model \in BOOLEAN
    /\ manifest \in Manifests
    /\ origManifest = manifest
    /\ up = NotRun
    /\ proc = LaunchFailure
    /\ buildRet = NotBuilt
    /\ logFile \in {NoFile, TextFile(StaleLog)}
    /\ calls = <<>>
    /\ files = Project(SrcTotalLines)
    /\ backend = NoBackend
    /\ analysis = NoAnalysis
    /\ printed = <<>>
    /\ error = <<>>
    /\ snippetOut = NoSnippet
    /\ given = NoGiven

Upgrade ==
    /\ pc = "upgrade"
    /\ \E r \in Reports, ok \in BOOLEAN :
          LET res == upgrade_dependencies(manifest, r, ok)
          IN  /\ manifest' = res.manifest
              /\ up' = [ran |-> TRUE, ret |-> res.ret, exc |-> res.exc,
                        report |-> r, installOk |-> ok]
              /\ pc' = AfterUpgrade(res.ret)
    /\ calls' = Append(calls, "upgrade")
    /\ UNCHANGED <<use_local_model, origManifest, proc, buildRet, logFile,
                   files, backend, analysis, printed, error, snippetOut, given>>

Build ==
    /\ pc = "build"
    /\ \E p \in Procs, w \in WriteOutcomes :
          LET res == build_project(p, logFile, w)
          IN  /\ proc' = p
              /\ logFile' = res.log
              /\ buildRet' = [ran |-> TRUE, ret |-> res.ret, exc |-> res.exc]
              /\ pc' = AfterBuild(res.ret)
    /\ calls' = Append(calls, "build")
    /\ UNCHANGED <<use_local_model, manifest, origManifest, up, files, backend,
                   analysis, printed, error, snippetOut, given>>

Analyze ==
    /\ pc = "analyze"
    /\ \E b \in Backends(MaxBuildLines) :
          /\ backend' = b
          /\ analysis' =
                Ran(analyze_build_errors(logFile, files, use_local_model, b))
    /\ calls' = Append(calls, "analyze")
    /\ pc' = "print"
    /\ UNCHANGED <<use_local_model, manifest, origManifest, up, proc, buildRet,
                   logFile, files, printed, error, snippetOut, given>>

\* Lines 264-265
PrintSuggestions ==
    /\ pc = "print"
    /\ printed' = analysis.ret
    /\ pc' = "done"
    /\ UNCHANGED <<use_local_model, manifest, origManifest, up, proc, buildRet,
                   logFile, calls, files, backend, analysis, error, snippetOut,
                   given>>

Next == Upgrade \/ Build \/ Analyze \/ PrintSuggestions

Spec == Init /\ [][Next]_vars

---------------------------------------------------------------------------
(* analyze_build_errors called on any build log *)

InitAnalyze ==
    /\ pc = "call"
    /\ use_local_model \in BOOLEAN
    /\ manifest = MissingManifest
    /\ origManifest = manifest
    /\ up = NotRun
    /\ proc = LaunchFailure
    /\ buildRet = NotBuilt
    /\ \E ls \in SeqsUpTo(LogLines, MaxLogLines) :
          \/ /\ given = [form |-> "log", lines |-> ls]
             /\ logFile = TextFile(LinesText(ls))
          \/ /\ ls = <<>>
             /\ given = [form |-> "nolog", lines |-> ls]
             /\ logFile \in {NoFile, UnreadableFile}
    /\ calls = <<>>
    /\ files = Project(SrcTotalLines)
    /\ backend \in Backends(MaxLogLines)
    /\ analysis = NoAnalysis
    /\ printed = <<>>
    /\ error = <<>>
    /\ snippetOut = NoSnippet

AnalyzeCall ==
    /\ pc = "call"
    /\ analysis' =
          Ran(analyze_build_errors(logFile, files, use_local_model, backend))
    /\ pc' = "returned"
    /\ UNCHANGED <<use_local_model, manifest, origManifest, up, proc, buildRet,
                   logFile, calls, files, backend, printed, error, snippetOut,
                   given>>

NextAnalyze == AnalyzeCall

SpecAnalyze == InitAnalyze /\ [][NextAnalyze]_vars

---------------------------------------------------------------------------
(* get_code_snippet_around_error called on its own *)

InitSnippet ==
    /\ pc = "call"
    /\ use_local_model = FALSE
    /\ manifest = MissingManifest
    /\ origManifest = manifest
    /\ up = NotRun
    /\ proc = LaunchFailure
    /\ buildRet = NotBuilt
    /\ calls = <<>>
    /\ given \in Givens
    /\ logFile = TextFile(LinesText(<<GivenError(given)>>))
    /\ files = Project(given.total)
    /\ backend = NoBackend
    /\ analysis = NoAnalysis
    /\ printed = <<>>
    /\ error = GivenError(given)
    /\ snippetOut = NoSnippet

SnippetCall ==
    /\ pc = "call"
    /\ snippetOut' = Ran(get_code_snippet_around_error(files, error))
    /\ pc' = "returned"
    /\ UNCHANGED <<use_local_model, manifest, origManifest, up, proc, buildRet,
                   logFile, calls, files, backend, analysis, printed, error,
                   given>>

\* The end-to-end scenario: a build log holding that one error line, analysed
\* with the hosted backend stubbed to echo its prompt
AnalyzeLine ==
    /\ pc = "returned"
    /\ analysis' =
          Ran(analyze_build_errors(logFile, files, use_local_model, backend))
    /\ pc' = "analyzed"
    /\ UNCHANGED <<use_local_model, manifest, origManifest, up, proc, buildRet,
                   logFile, calls, files, backend, printed, error, snippetOut,
                   given>>

NextSnippet == SnippetCall \/ AnalyzeLine

SpecSnippet == InitSnippet /\ [][NextSnippet]_vars

---------------------------------------------------------------------------
(* Properties of the pipeline, checked under Spec *)

Stages == <<"upgrade", "build", "analyze">>

\* C1: the stages run in the order upgrade, build, analyze, each at most
\* once; build_project is called only after upgrade_dependencies returned
\* True; analyze_build_errors is called only after the build exited non-zero
\* and build_errors.log was written; an upgrade failure, a zero exit status
\* or an exception during the build ends the run without the analyzer.
C1_StagesGated ==
    /\ Len(calls) <= 3
    /\ calls = SubSeq(Stages, 1, Len(calls))
    /\ Len(calls) >= 1 <=> up.ran
    /\ Len(calls) >= 2 <=> buildRet.ran
    /\ Len(calls) >= 3 <=> analysis.ran
    /\ buildRet.ran => up.ret
    /\ analysis.ran =>
          /\ proc.launched /\ proc.returncode # 0
          /\ buildRet.exc = "none"
          /\ logFile = TextFile(CapturedErrors(proc))
    /\ (up.ran /\ ~up.ret) => (pc = "done" /\ ~buildRet.ran)
    /\ (buildRet.ran /\ (~proc.launched \/ proc.returncode = 0
                          \/ buildRet.exc # "none"))
          => (pc = "done" /\ ~analysis.ran)

C1_Witness ==
    /\ pc = "done"
    /\ calls = Stages
    /\ proc.returncode = 1
    /\ Len(printed) = 1

\* The dependencies C2 expects: the keys of the manifest, those also in the
\* report at the reported latest version
ExpectedDeps(m, r) ==
    [p \in DOMAIN m.deps |->
        IF p \in DOMAIN r.entries THEN r.entries[p] ELSE m.deps[p]]

\* C2: a successful upgrade_dependencies sets each key of
\* keys(M.dependencies) \cap keys(R) to R[key].latest, adds and removes no
\* dependency key, keeps the version of every dependency not in R, and leaves
\* every other manifest field as it was.
C2_UpgradeExact ==
    (up.ran /\ up.ret) =>
        /\ origManifest.kind = "json" /\ manifest.kind = "json"
        /\ up.report.kind = "dict"
        /\ manifest.hasDeps = origManifest.hasDeps
        /\ DOMAIN manifest.deps = DOMAIN origManifest.deps
        /\ \A p \in DOMAIN origManifest.deps :
              IF p \in DOMAIN up.report.entries
              THEN manifest.deps[p] = up.report.entries[p]
              ELSE manifest.deps[p] = origManifest.deps[p]
        /\ manifest.other = origManifest.other

C2_Witness ==
    /\ up.ran /\ up.ret
    /\ origManifest.deps = [p \in {"left-pad"} |-> "^1.0.0"]
    /\ up.report.entries = [p \in {"left-pad", "lodash"} |-> "1.3.0"]
    /\ manifest.deps = [p \in {"left-pad"} |-> "1.3.0"]

\* c is the two streams a and b interleaved
RECURSIVE IsInterleaving(_, _, _)
IsInterleaving(c, a, b) ==
    IF Len(c) = 0 THEN Len(a) = 0 /\ Len(b) = 0
    ELSE \/ /\ Len(a) > 0 /\ a[1] = c[1]
            /\ IsInterleaving(Tail(c), Tail(a), b)
         \/ /\ Len(b) > 0 /\ b[1] = c[1]
            /\ IsInterleaving(Tail(c), a, Tail(b))

\* C3: whenever build_project returns True, build_errors.log holds,
\* verbatim, the combined output (standard output and standard error) of
\* that build run.
C3_LogHoldsCombinedOutput ==
    (buildRet.ran /\ buildRet.ret) =>
        /\ logFile.exists /\ logFile.readable
        /\ IsInterleaving(logFile.content, proc.stdout, proc.stderr)

\* C10: a False result of upgrade_dependencies at the install step leaves the
\* manifest overwritten with the latest versions, not rolled back, and the
\* pipeline aborted; a failure before the write step (unparseable report,
\* missing or malformed manifest, a matching entry without "latest") leaves
\* the manifest on disk as it was.
C10_FailedUpgradeManifest ==
    (up.ran /\ ~up.ret) =>
        /\ pc = "done" /\ calls = <<"upgrade">>
        /\ IF up.exc = "CalledProcessError"
           THEN /\ ~up.installOk
                /\ origManifest.kind = "json"
                /\ manifest.kind = "json"
                /\ manifest.layout = "indent2"
                /\ manifest.deps = ExpectedDeps(origManifest, up.report)
           ELSE /\ manifest = origManifest
                /\ \/ up.report.kind # "dict"
                   \/ origManifest.kind # "json"
                   \/ \E p \in DOMAIN origManifest.deps
                               \cap DOMAIN up.report.entries :
                         up.report.entries[p] = NoLatest

C10_Witness ==
    /\ up.ran /\ ~up.ret
    /\ up.exc = "CalledProcessError"
    /\ origManifest.deps = [p \in {"left-pad"} |-> "^1.0.0"]
    /\ manifest.deps = [p \in {"left-pad"} |-> "1.3.0"]
    /\ pc = "done"

---------------------------------------------------------------------------
(* Properties of analyze_build_errors, checked under SpecAnalyze *)

\* The lines of LogLines that hold the substring "error"
ErrorLogLines ==
    {ErrorAt(SrcPath, 7, 1), ErrorAt(MissingPath, 1, 1), NoParenError,
     BadNumberError}

\* Those of them whose snippet extraction fails
NoSnippetLines == {ErrorAt(MissingPath, 1, 1), NoParenError, BadNumberError}

IsListedError(l) == l \in ErrorLogLines

\* The error lines of the log the call was given, in log order
GivenErrors == SelectSeq(given.lines, IsListedError)

\* C4: with a backend stub that echoes its prompt, analyze_build_errors
\* returns one suggestion per log line holding "error", in log order, each
\* holding its error line; also for the lines whose snippet extraction fails,
\* whose snippet is empty and whose prompt is still sent; lines without the
\* substring get no suggestion.
C4_EchoOnePerErrorLine ==
    (/\ pc = "returned" /\ given.form = "log"
     /\ backend.mode = "echo"
     /\ backend.failAt \cap (1..Len(GivenErrors)) = {}
     /\ (use_local_model => backend.loadOk)) =>
        /\ ~analysis.raised
        /\ Len(analysis.ret) = Len(GivenErrors)
        /\ Len(analysis.prompts) = Len(GivenErrors)
        /\ \A i \in 1..Len(GivenErrors) :
              /\ Contains(analysis.ret[i], GivenErrors[i])
              /\ analysis.ret[i] = analysis.prompts[i]
              /\ GivenErrors[i] \in NoSnippetLines =>
                    analysis.prompts[i] =
                        PromptHead \o GivenErrors[i] \o PromptMid \o PromptTail

C4_Witness ==
    /\ pc = "returned"
    /\ ~use_local_model
    /\ backend.mode = "echo" /\ backend.failAt = {}
    /\ given.lines = <<ErrorAt(MissingPath, 1, 1), ErrorAt(SrcPath, 7, 1)>>
    /\ Len(analysis.ret) = 2
    /\ Contains(analysis.ret[2], ErrorAt(SrcPath, 7, 1))

\* C5: with the hosted backend, a failure of the remote call on an error line
\* is caught for that line only: its suggestion is the placeholder, the loop
\* goes on, and the result has one entry per error line, in order.
C5_HostedFailureIsolated ==
    (pc = "returned" /\ given.form = "log" /\ ~use_local_model) =>
        /\ ~analysis.raised
        /\ Len(analysis.ret) = Len(GivenErrors)
        /\ Len(analysis.prompts) = Len(GivenErrors)
        /\ \A i \in 1..Len(GivenErrors) :
              /\ Contains(analysis.prompts[i], GivenErrors[i])
              /\ analysis.ret[i] =
                    IF i \in backend.failAt THEN Placeholder
                    ELSE IF backend.mode = "echo" THEN analysis.prompts[i]
                    ELSE FixedAnswer

C5_Witness ==
    /\ pc = "returned"
    /\ ~use_local_model
    /\ backend.failAt = {1}
    /\ Len(GivenErrors) = 2
    /\ analysis.ret[1] = Placeholder
    /\ analysis.ret[2] # Placeholder

\* C6: if the build log is absent, unreadable, or holds no error line,
\* analyze_build_errors returns the empty list, raises nothing and calls no
\* backend.
C6_NoLogNoSuggestions ==
    (pc = "returned" /\ (given.form = "nolog" \/ Len(GivenErrors) = 0)) =>
        /\ ~analysis.raised
        /\ analysis.ret = <<>>
        /\ analysis.prompts = <<>>

C6_Witness ==
    /\ pc = "returned"
    /\ logFile \in {NoFile, UnreadableFile}
    /\ analysis.ran
    /\ analysis.ret = <<>>

\* The first error line on which the backend fails, 0 if there is none
FirstFailure ==
    LET F == backend.failAt \cap (1..Len(GivenErrors))
    IN  IF F = {} THEN 0 ELSE SetMin(F)

\* C9: with the local backend, a failure of generation on the k-th error line
\* leaves the loop: the later error lines are not analysed, and
\* analyze_build_errors returns the empty list, not the suggestions collected
\* for the error lines before it.
C9_LocalFailureAborts ==
    (/\ pc = "returned" /\ given.form = "log"
     /\ use_local_model /\ backend.loadOk
     /\ FirstFailure > 0) =>
        /\ ~analysis.raised
        /\ analysis.ret = <<>>
        /\ Len(analysis.prompts) = FirstFailure

C9_Witness ==
    /\ pc = "returned"
    /\ use_local_model /\ backend.loadOk
    /\ given.form = "log" /\ Len(GivenErrors) = 2
    /\ backend.failAt = {2}
    /\ Len(analysis.prompts) = 2
    /\ analysis.ret = <<>>

---------------------------------------------------------------------------
(* Properties of get_code_snippet_around_error, checked under SpecSnippet *)

\* C7 as stated: for an existing file of totalLines lines and a reported line
\* >= 0, no exception, a window of at most 11 lines, of length exactly
\* min(line+5, totalLines) - max(0, line-5).
C7_WindowLengthAsStated ==
    (snippetOut.ran /\ given.form = "located") =>
        /\ ~snippetOut.raised /\ snippetOut.exc = "none"
        /\ Len(snippetOut.lines) <= 11
        /\ Len(snippetOut.lines) =
              Min(given.line + 5, given.total) - Max(0, given.line - 5)

\* C7 amended: the length is that difference where it is not negative, and 0
\* where it is (line > totalLines + 5).
C7_WindowLength ==
    (snippetOut.ran /\ given.form = "located") =>
        /\ ~snippetOut.raised /\ snippetOut.exc = "none"
        /\ Len(snippetOut.lines) <= 11
        /\ Len(snippetOut.lines) =
              Max(0, Min(given.line + 5, given.total) - Max(0, given.line - 5))
        /\ Len(splitlines(snippetOut.ret)) = Len(snippetOut.lines)

C7_Witness ==
    /\ snippetOut.ran /\ given.form = "located"
    /\ given.total = 3
    /\ given.line = 7
    /\ snippetOut.lines = <<SourceLine(2)>>

\* The source lines at 0-indexed positions from..to
RECURSIVE SourceLines(_, _)
SourceLines(from, to) ==
    IF from > to THEN <<>> ELSE <<SourceLine(from)>> \o SourceLines(from + 1, to)

\* C8: for an error line "<file>(L,C): error ..." with L >= 5 and a source
\* file of at least L+5 lines, the snippet is the source lines at 0-indexed
\* positions L-5 .. L+4 in file order, and the prompt sent to the backend
\* holds that snippet and the error text.
C8_SnippetIsWindow ==
    (pc = "analyzed" /\ given.form = "located"
     /\ given.line >= 5 /\ given.total >= given.line + 5) =>
        /\ snippetOut.lines = SourceLines(given.line - 5, given.line + 4)
        /\ splitlines(snippetOut.ret) = snippetOut.lines
        /\ Len(analysis.prompts) = 1
        /\ Contains(analysis.prompts[1], snippetOut.ret)
        /\ Contains(analysis.prompts[1], error)

C8_Witness ==
    /\ pc = "analyzed" /\ given.form = "located"
    /\ given.line = 10 /\ given.total = 15
    /\ snippetOut.lines = SourceLines(5, 14)
    /\ Len(analysis.ret) = 1

====
